---- MODULE Spec2Model ----
(***************************************************************************)
(* Model of the AgereOne backend's vector-store lifecycle and chat:        *)
(*   app/services/vectorstore.py, app/services/supabase.py,                *)
(*   app/routes/profile/upload_file.py, app/routes/profile/delete.py,      *)
(*   app/utils/embeddings.py, app/api/auth/update_key.py,                  *)
(*   app/routes/agent.py, app/utils/agent.py, app/deps/supabase_auth.py.   *)
(*                                                                         *)
(* The shared state is the Qdrant index (collections, points) and the      *)
(* Supabase tables (profiles, openai_keys).  Every HTTP request is a       *)
(* record of the sequence req; its pc is the next remote call it will      *)
(* issue, so requests interleave exactly at their remote calls.            *)
(*                                                                         *)
(* Spec is the upload, delete and retrieval requests.  SpecChat is the     *)
(* chat requests, served from the state that successful uploads leave.     *)
(* SpecChunk is the chunking parameters of store_profile_vectors.          *)
(***************************************************************************)
EXTENDS Integers, Sequences, FiniteSets, TLC

\* ---------------------------------------------------------------- bounds
MaxReq == 2        \* requests issued in one behaviour
MaxFaults == 1     \* remote calls that fail in one behaviour
MaxChats == 2      \* chat requests issued in one behaviour
MaxFrags == 2      \* fragments the completion service sends in one stream

\* ------------------------------------------------------------- constants
COLLECTION_NAME == "career_profiles"
VECTOR_SIZE == 1536
DISTANCE == "Cosine"
TOP_K == 6

Tenants == {"u1", "u2"}

\* An uploaded file: its extension, whether its bytes can be decoded or
\* parsed, and the text it holds as a sequence of chunk-sized passages
\* (<< >> is a file holding nothing but whitespace).
Files ==
    { [name |-> "tool.exe",  ext |-> ".exe", readable |-> TRUE,  text |-> <<"a">>],
      [name |-> "scan.pdf",  ext |-> ".pdf", readable |-> FALSE, text |-> <<"a">>],
      [name |-> "blank.txt", ext |-> ".txt", readable |-> TRUE,  text |-> << >>],
      [name |-> "cv.txt",    ext |-> ".txt", readable |-> TRUE,  text |-> <<"a">>],
      [name |-> "cv.md",     ext |-> ".md",  readable |-> TRUE,  text |-> <<"a", "b">>] }

NoFile == [name |-> "", ext |-> "", readable |-> FALSE, text |-> << >>]

VARIABLES
    collections,   \* Qdrant: the set of collections, each with its schema
    points,        \* Qdrant: the points of collection COLLECTION_NAME
    profiles,      \* Supabase table profiles
    openai_keys,   \* Supabase table openai_keys: the tenants that have a row
    nreq,          \* number of requests that have arrived
    req,           \* the requests in flight, by order of arrival
    last,          \* the request that finished most recently
    deleted_ok,    \* tenants whose delete request returned success and
                   \* for whom no upsert has been made since
    faults,        \* number of remote calls that have failed
    eceFault,      \* a remote call of ensure_collection_exists has failed
    eceOverlap,    \* two calls of ensure_collection_exists have overlapped
    chat,          \* the chat request being served and the outcomes of
                   \* the chat requests served before it
    chunking       \* a call of store_profile_vectors seen through its
                   \* chunking parameters

vars == <<collections, points, profiles, openai_keys, nreq, req, last,
          deleted_ok, faults, eceFault, eceOverlap, chat, chunking>>

\* ------------------------------------------------------------ operators

Min(a, b) == IF a < b THEN a ELSE b

\* upload_file.py:40  file.filename.endswith((".pdf", ".txt", ".md"))
AllowedType(file) == file.ext \in {".pdf", ".txt", ".md"}

\* text_extraction.py:8-43  raises RuntimeError when the bytes cannot be read
ExtractFails(file) == ~file.readable

\* text_extraction.py:40-43  the text of the RuntimeError: its own words and
\* the text of the parser's or decoder's exception, "fault"
ExtractError(file) == "Failed to extract text: " \o "fault"

\* upload_file.py:61  not text.strip()
EmptyText(file) == file.text = << >>

\* vectorstore.py:149-150  text_splitter.split_text(text): the passages of
\* the text, in order
split_text(text) == text

\* Mutant of CollectionMissing: the existence check is dropped and the
\* collection is created on every call
CollectionMissingAlways(cols) == TRUE

\* vectorstore.py:32-33  COLLECTION_NAME not in collections
CollectionMissing(cols) == COLLECTION_NAME \notin {c.name : c \in cols}

\* vectorstore.py:35-38  the collection that create_collection makes
NewCollection ==
    [name |-> COLLECTION_NAME, size |-> VECTOR_SIZE, distance |-> DISTANCE,
     payload_index |-> {}]

\* vectorstore.py:39-43  create_payload_index(field_name="user_id",
\* field_schema="keyword") applied to the collections
WithPayloadIndex(cols) ==
    { IF c.name = COLLECTION_NAME
        THEN [c EXCEPT !.payload_index = @ \cup {<<"user_id", "keyword">>}]
        ELSE c : c \in cols }

\* Mutant of SearchFilter: the search is issued without the tenant filter
SearchFilterAny(p, user_id) == TRUE

\* vectorstore.py:98-105  the search filter: FieldCondition(key="user_id",
\* match=MatchValue(value=user_id))
SearchFilter(p, user_id) == p.user_id = user_id

\* Mutant of DeleteFilter: the selector names a payload key no point has,
\* so it matches nothing
DeleteFilterNone(p, user_id) == FALSE

\* vectorstore.py:181-188  the points selector of client.delete
DeleteFilter(p, user_id) == p.user_id = user_id

\* vectorstore.py:155-170  the PointStructs built from the chunks of request r
EmbeddedDocs(r, user_id, chunks) ==
    { [id |-> <<r, i>>, user_id |-> user_id, text |-> chunks[i]] :
        i \in 1..Len(chunks) }

\* Mutant of StoreEffect: every chunk is upserted as soon as it is embedded,
\* so the chunks before a failure stay in the index
StoreEffectPerChunk(pts, docs, failAt, upsertFails) ==
    pts \cup { d \in docs : d.id[2] < failAt /\ ~upsertFails }

\* vectorstore.py:153-172  the points of the index after store_profile_vectors
\* when embedding fails at chunk failAt (failAt > number of chunks: no
\* embedding fails) and the upsert fails or not: the loop only appends to the
\* local list embedded_docs, the single upsert follows the loop
StoreEffect(pts, docs, failAt, upsertFails) ==
    IF failAt <= Cardinality(docs) \/ upsertFails THEN pts ELSE pts \cup docs

\* Mutant of Deactivated: the update has no filter on user_id
DeactivatedAll(rows, user_id) ==
    { IF row.is_active THEN [row EXCEPT !.is_active = FALSE] ELSE row :
        row \in rows }

\* supabase.py:78, 87  update({"is_active": False}).eq("user_id", user_id)
\*                     .eq("is_active", True)
Deactivated(rows, user_id) ==
    { IF row.user_id = user_id /\ row.is_active
        THEN [row EXCEPT !.is_active = FALSE]
        ELSE row : row \in rows }

ActiveRows(rows, user_id) ==
    { row \in rows : row.user_id = user_id /\ row.is_active }

\* supabase.py:105-114  the row insert_user_profile_metadata inserts
NewProfileRow(r, user_id, file_name) ==
    [id |-> r, user_id |-> user_id, original_filename |-> file_name,
     is_active |-> TRUE, is_published |-> FALSE]

\* vectorstore.py:35-38  Qdrant refuses to create a collection whose name is
\* taken (the reason for the check of lines 32-33)
AlreadyExists(cols) == COLLECTION_NAME \in {c.name : c \in cols}

\* Mutant of RowsDeleted: the request goes on whatever the count is
RowsDeletedAtLeastOne(counted, n) == IF counted /\ n > 0 THEN n ELSE 1

\* supabase.py:79  response.count or 0: the count is the number of rows
\* updated when the response carries one, and absent (None) otherwise
RowsDeleted(counted, n) == IF counted THEN n ELSE 0

\* Mutant of NextCall: the upload stores the new vectors without deleting
\* the old ones
NextCallNoDelete(call) ==
    CASE call = "deactivate_user_profiles" -> "store_profile_vectors"
      [] call = "delete_user_vectors" -> "store_profile_vectors"
      [] call = "store_profile_vectors" -> "insert_user_profile_metadata"

\* Mutant of NextCall: the upload stores the new vectors first and deletes
\* the tenant's vectors afterwards
NextCallStoreFirst(call) ==
    CASE call = "deactivate_user_profiles" -> "store_profile_vectors"
      [] call = "store_profile_vectors" -> "delete_user_vectors"
      [] call = "delete_user_vectors" -> "insert_user_profile_metadata"

\* upload_file.py:89-112  the order of the calls inside the try block
NextCall(call) ==
    CASE call = "deactivate_user_profiles" -> "delete_user_vectors"
      [] call = "delete_user_vectors" -> "store_profile_vectors"
      [] call = "store_profile_vectors" -> "insert_user_profile_metadata"

\* Mutant of UploadRejection: the check for empty text is missing
UploadRejectionNoEmptyCheck(file, openai_key) ==
    IF ~AllowedType(file)
      THEN <<"400", "Only PDF, TXT, or Markdown (.md) files are allowed.">>
    ELSE IF ExtractFails(file)
      THEN <<"500", "Failed to extract text: " \o ExtractError(file)>>
    ELSE IF ~openai_key
      THEN <<"400", "No OpenAI key configured. Please set your OpenAI API key before uploading a profile.">>
    ELSE <<"", "">>

\* upload_file.py:39-77  the rejection of an upload before the try block:
\* the status and detail of the HTTPException raised, "" when none is; the
\* detail of a failed extraction ends with str(e) (line 58)
UploadRejection(file, openai_key) ==
    IF ~AllowedType(file)
      THEN <<"400", "Only PDF, TXT, or Markdown (.md) files are allowed.">>
    ELSE IF ExtractFails(file)
      THEN <<"500", "Failed to extract text: " \o ExtractError(file)>>
    ELSE IF EmptyText(file)
      THEN <<"400", "No text found in the uploaded file.">>
    ELSE IF ~openai_key
      THEN <<"400", "No OpenAI key configured. Please set your OpenAI API key before uploading a profile.">>
    ELSE <<"", "">>

\* ------------------------------------------------------------- requests

\* A request: id is its order of arrival, kind the endpoint or function
\* called, pc the remote call it issues next, call the vectorstore function
\* it is inside.  issued is the sequence of state-changing calls it has
\* made, ensures the number of calls of ensure_collection_exists that
\* returned to it, found the number of active profile rows a delete request
\* met, alone whether no other request of the same tenant was in flight
\* together with it.
Request(kind, user_id, file, openai_key, pc, call, status, detail) ==
    [id |-> 0, kind |-> kind, user_id |-> user_id, file |-> file,
     openai_key |-> openai_key, pc |-> pc, call |-> call,
     status |-> status, detail |-> detail, raised |-> "",
     hits |-> {}, issued |-> << >>, ensures |-> 0, found |-> 0,
     alone |-> TRUE]

NoRequest == Request("", "", NoFile, FALSE, "done", "", "", "")

InFlight == DOMAIN req
InEnsure(r) == req[r].pc \in {"create_collection", "create_payload_index"}
Busy(t) == \E i \in InFlight : req[i].user_id = t

\* A request arrives; one that is answered at once only leaves its record
\* in last
Arrive(new) ==
    /\ nreq < MaxReq
    /\ nreq' = nreq + 1
    /\ LET rec == [new EXCEPT !.id = nreq + 1, !.alone = ~Busy(new.user_id)]
           seen == [i \in InFlight |->
                      IF req[i].user_id = new.user_id
                        THEN [req[i] EXCEPT !.alone = FALSE]
                        ELSE req[i]]
       IN IF rec.pc = "done"
            THEN req' = seen /\ last' = rec
            ELSE /\ req' = [i \in InFlight \cup {nreq + 1} |->
                              IF i = nreq + 1 THEN rec ELSE seen[i]]
                 /\ last' = last

\* Request r takes a step that leaves it as rec; a finished request leaves
\* req and becomes last
Step(r, rec) ==
    IF rec.pc = "done"
      THEN /\ req' = [i \in InFlight \ {r} |-> req[i]]
           /\ last' = rec
      ELSE /\ req' = [req EXCEPT ![r] = rec]
           /\ last' = last

Finished(rec, status, detail) ==
    [rec EXCEPT !.pc = "done", !.call = "", !.status = status,
                !.detail = detail]

\* Mutant of Raise: query_profile_vectors catches the exception and
\* returns the empty list
RaiseCaughtInQuery(rec, exc) ==
    LET r1 == [rec EXCEPT !.raised = exc]
    IN CASE rec.kind = "upload" -> Finished(r1, "500", "Embedding error: " \o exc)
         [] rec.kind = "delete" -> Finished(r1, "500", "Failed to delete profile.")
         [] rec.kind = "query"  -> Finished(r1, "returned", "")

\* The request after an exception is raised inside it:
\*   upload_file.py:115-120 (the detail ends with str(e)), delete.py:39-41;
\*   query_profile_vectors has no handler and raises to its caller
Raise(rec, exc) ==
    LET r1 == [rec EXCEPT !.raised = exc]
    IN CASE rec.kind = "upload" -> Finished(r1, "500", "Embedding error: " \o exc)
         [] rec.kind = "delete" -> Finished(r1, "500", "Failed to delete profile.")
         [] rec.kind = "query"  -> Finished(r1, "raised", "")

\* The request after a vectorstore function returned normally to it
Continue(rec) ==
    IF rec.kind = "upload"
      THEN LET nc == NextCall(rec.call)
           IN IF nc = "insert_user_profile_metadata"
                THEN [rec EXCEPT !.pc = "insert", !.call = ""]
                ELSE [rec EXCEPT !.pc = "ensure", !.call = nc]
      ELSE Finished(rec, "200", "Profile and vectors deleted.")

Fault == faults < MaxFaults /\ faults' = faults + 1
NoFault == faults' = faults

\* ------------------------------------------------------- chat requests

\* routes/agent.py:20-22  ChatRequest.username: "" is the absent selector
\* (None); "nobody" is a name no user has
Selectors == {"", "alice", "bob", "nobody"}

\* api/auth/register.py:92-100  the users table: every tenant has registered
\* under a username
Username(t) == IF t = "u1" THEN "alice" ELSE "bob"

users == { [id |-> t, username |-> Username(t)] : t \in Tenants }

\* The chat request being served.  n counts the chat requests that have
\* arrived; cause is why no profile was resolved ("no profile", "upstream");
\* retrieval is how the call of query_profile_vectors ended; handed is the
\* sequence of grounding contexts given to the completion service; provider
\* is the sequence of fragments the completion service will send, recv the
\* number of them consumed, emitted the items yielded to the caller, open
\* whether the response stream is still open; outcomes holds the outcomes
\* <<cause, status, detail>> of the chat requests answered so far.
NoChat ==
    [n |-> 0, pc |-> "idle", kind |-> "", caller |-> "", username |-> "",
     user_id |-> "", openai_key |-> FALSE, cause |-> "", failed |-> FALSE,
     retrieval |-> "", context |-> << >>, handed |-> << >>,
     completion |-> "", answer |-> << >>, status |-> "", detail |-> "",
     provider |-> << >>, recv |-> 0, emitted |-> << >>, open |-> FALSE,
     outcomes |-> {}]

\* A call of store_profile_vectors: its arguments model, user_plan,
\* chunk_size and chunk_overlap (<< >> is None), the size and overlap it
\* hands to the text splitter and the payload it gives to every point.
\* via is the entry point, plan the tenant's plan tier, form_size and
\* form_overlap what the caller of the entry point supplied, row the
\* profile row the upload inserts, query_model the model a later query of
\* the tenant's vectors is embedded with.
NoChunking ==
    [pc |-> "idle", via |-> "", plan |-> "", form_size |-> << >>,
     form_overlap |-> << >>, model |-> << >>, user_plan |-> "",
     chunk_size |-> << >>, chunk_overlap |-> << >>, size |-> 0,
     overlap |-> 0, payload |-> << >>, row |-> << >>,
     query_model |-> << >>]

\* ----------------------------------------------------------------- Init

Init ==
    /\ collections = {}
    /\ points = {}
    /\ profiles = {}
    /\ openai_keys = {}
    /\ nreq = 0
    /\ req = << >>
    /\ last = NoRequest
    /\ deleted_ok = {}
    /\ faults = 0
    /\ eceFault = FALSE
    /\ eceOverlap = FALSE
    /\ chat = NoChat
    /\ chunking = NoChunking

\* -------------------------------------------------------------- actions

\* api/auth/update_key.py:36-57, supabase.py:174-186
update_openai_key(t) ==
    /\ t \notin openai_keys
    /\ openai_keys' = openai_keys \cup {t}
    /\ UNCHANGED <<chat, chunking, collections, points, profiles, nreq, req, last,
                   deleted_ok, faults, eceFault, eceOverlap>>

\* supabase.py:160-172  get_openai_key_and_model_for_user: the key of the
\* tenant's row, None when there is no row or the lookup fails
KeyFound(keys, user_id, lookup_ok) == lookup_ok /\ user_id \in keys

\* upload_file.py:22-85  a request arrives and is validated
upload_profile(t, file) ==
    /\ \E lookup_ok \in BOOLEAN :
         LET key == KeyFound(openai_keys, t, lookup_ok)
             rej == UploadRejection(file, key)
         IN /\ IF lookup_ok THEN NoFault
                            ELSE /\ Fault
                                 /\ UploadRejection(file, TRUE)[1] = ""
            /\ Arrive(IF rej[1] # ""
                        THEN Request("upload", t, file, key, "done", "",
                                     rej[1], rej[2])
                        ELSE Request("upload", t, file, key, "deactivate",
                                     "", "", ""))
    /\ UNCHANGED <<chat, chunking, collections, points, profiles, openai_keys, deleted_ok,
                   eceFault, eceOverlap>>

\* upload_file.py:89, supabase.py:81-90  errors are logged and swallowed
deactivate_user_profiles(r) ==
    /\ req[r].pc = "deactivate"
    /\ \/ NoFault /\ profiles' = Deactivated(profiles, req[r].user_id)
       \/ Fault /\ profiles' = profiles
    /\ Step(r, [req[r] EXCEPT !.pc = "ensure",
                              !.call = NextCall("deactivate_user_profiles"),
                              !.issued = Append(@, "deactivate")])
    /\ UNCHANGED <<chat, chunking, collections, points, openai_keys, nreq, deleted_ok,
                   eceFault, eceOverlap>>

\* vectorstore.py:32-33  get_collections and the membership test
ensure_collection_exists(r) ==
    /\ req[r].pc = "ensure"
    /\ \/ /\ Fault
          /\ eceFault' = TRUE
          /\ eceOverlap' = eceOverlap
          /\ Step(r, Raise(req[r], "fault"))
       \/ /\ NoFault
          /\ eceFault' = eceFault
          /\ eceOverlap' = (eceOverlap \/ \E i \in InFlight : InEnsure(i))
          /\ Step(r, IF CollectionMissing(collections)
                       THEN [req[r] EXCEPT !.pc = "create_collection"]
                       ELSE [req[r] EXCEPT !.pc = "body", !.ensures = @ + 1])
    /\ UNCHANGED <<chat, chunking, collections, points, profiles, openai_keys, nreq,
                   deleted_ok>>

\* vectorstore.py:35-38
create_collection(r) ==
    /\ req[r].pc = "create_collection"
    /\ \/ /\ Fault
          /\ eceFault' = TRUE
          /\ collections' = collections
          /\ Step(r, Raise(req[r], "fault"))
       \/ /\ NoFault
          /\ eceFault' = eceFault
          /\ AlreadyExists(collections)
          /\ collections' = collections
          /\ Step(r, Raise(req[r], "conflict"))
       \/ /\ NoFault
          /\ eceFault' = eceFault
          /\ ~AlreadyExists(collections)
          /\ collections' = collections \cup {NewCollection}
          /\ Step(r, [req[r] EXCEPT !.pc = "create_payload_index"])
    /\ UNCHANGED <<chat, chunking, points, profiles, openai_keys, nreq, deleted_ok,
                   eceOverlap>>

\* vectorstore.py:39-43
create_payload_index(r) ==
    /\ req[r].pc = "create_payload_index"
    /\ \/ /\ Fault
          /\ eceFault' = TRUE
          /\ collections' = collections
          /\ Step(r, Raise(req[r], "fault"))
       \/ /\ NoFault
          /\ eceFault' = eceFault
          /\ collections' = WithPayloadIndex(collections)
          /\ Step(r, [req[r] EXCEPT !.pc = "body", !.ensures = @ + 1])
    /\ UNCHANGED <<chat, chunking, points, profiles, openai_keys, nreq, deleted_ok,
                   eceOverlap>>

\* vectorstore.py:179-190  client.delete with the tenant filter; a delete
\* request then returns (delete.py:37-43)
delete_user_vectors(r) ==
    /\ req[r].pc = "body"
    /\ req[r].call = "delete_user_vectors"
    /\ \/ /\ Fault
          /\ points' = points
          /\ deleted_ok' = deleted_ok
          /\ Step(r, Raise(req[r], "fault"))
       \/ /\ NoFault
          /\ points' = { p \in points : ~DeleteFilter(p, req[r].user_id) }
          /\ deleted_ok' = IF req[r].kind = "delete"
                             THEN deleted_ok \cup {req[r].user_id}
                             ELSE deleted_ok
          /\ Step(r, Continue([req[r] EXCEPT !.issued = Append(@, "delete")]))
    /\ UNCHANGED <<chat, chunking, collections, profiles, openai_keys, nreq, eceFault,
                   eceOverlap>>

\* vectorstore.py:147-174  chunk, embed every chunk, then one upsert
store_profile_vectors(r) ==
    /\ req[r].pc = "body"
    /\ req[r].call = "store_profile_vectors"
    /\ LET chunks == split_text(req[r].file.text)
           docs == EmbeddedDocs(r, req[r].user_id, chunks)
       IN \/ /\ NoFault
             /\ points' = StoreEffect(points, docs, Len(chunks) + 1, FALSE)
             /\ Step(r, Continue([req[r] EXCEPT
                                    !.issued = Append(@, "upsert")]))
          \/ /\ Fault
             /\ \E failAt \in 1..Len(chunks) :
                  points' = StoreEffect(points, docs, failAt, FALSE)
             /\ Step(r, Raise(req[r], "fault"))
          \/ /\ Fault
             /\ points' = StoreEffect(points, docs, Len(chunks) + 1, TRUE)
             /\ Step(r, Raise(req[r], "fault"))
    /\ deleted_ok' = IF \E p \in points' \ points : TRUE
                       THEN deleted_ok \ {req[r].user_id}
                       ELSE deleted_ok
    /\ UNCHANGED <<chat, chunking, collections, profiles, openai_keys, nreq, eceFault,
                   eceOverlap>>

\* upload_file.py:104-122, supabase.py:92-117  errors are logged and
\* swallowed; the request then returns "uploaded"
insert_user_profile_metadata(r) ==
    /\ req[r].pc = "insert"
    /\ \/ /\ NoFault
          /\ profiles' = profiles \cup
                 {NewProfileRow(r, req[r].user_id, req[r].file.name)}
       \/ Fault /\ profiles' = profiles
    /\ Step(r, Finished([req[r] EXCEPT !.issued = Append(@, "insert")],
                        "200", "uploaded"))
    /\ UNCHANGED <<chat, chunking, collections, points, openai_keys, nreq, deleted_ok,
                   eceFault, eceOverlap>>

\* delete.py:25-33, supabase.py:72-79  a delete request arrives and
\* soft-deletes the active profile; the 404 raised inside the try block is
\* caught by the handler of line 39
delete_profile(t) ==
    /\ \/ /\ Fault
          /\ profiles' = profiles
          /\ Arrive(Raise(Request("delete", t, NoFile, FALSE, "soft_delete",
                                  "", "", ""), "fault"))
       \/ /\ NoFault
          /\ profiles' = Deactivated(profiles, t)
          /\ \E counted \in BOOLEAN :
               LET rows_deleted ==
                     RowsDeleted(counted, Cardinality(ActiveRows(profiles, t)))
                   rec == [Request("delete", t, NoFile, FALSE, "ensure",
                                   "delete_user_vectors", "", "")
                             EXCEPT !.issued = <<"deactivate">>,
                                    !.found =
                                      Cardinality(ActiveRows(profiles, t))]
               IN Arrive(IF rows_deleted = 0
                           THEN Raise(rec, "404: No active profile found.")
                           ELSE rec)
    /\ UNCHANGED <<chat, chunking, collections, points, openai_keys, deleted_ok, eceFault,
                   eceOverlap>>

\* vectorstore.py:90-92  a call of query_profile_vectors with the tenant's
\* credential
query_profile_vectors_call(t) ==
    /\ Arrive(Request("query", t, NoFile, t \in openai_keys, "ensure",
                      "query_profile_vectors", "", ""))
    /\ UNCHANGED <<chat, chunking, collections, points, profiles, openai_keys, deleted_ok,
                   faults, eceFault, eceOverlap>>

\* vectorstore.py:93-114, embeddings.py:9-21  embed the query (a failure
\* gives None and an empty result), then the filtered search
query_profile_vectors(r) ==
    /\ req[r].pc = "body"
    /\ req[r].call = "query_profile_vectors"
    /\ \/ /\ NoFault
          /\ ~req[r].openai_key
          /\ Step(r, Finished(req[r], "returned", "no embedding"))
       \/ /\ Fault
          /\ req[r].openai_key
          /\ Step(r, Finished(req[r], "returned", "no embedding"))
       \/ /\ Fault
          /\ req[r].openai_key
          /\ Step(r, Raise(req[r], "fault"))
       \/ /\ NoFault
          /\ req[r].openai_key
          /\ LET match == { p \in points : SearchFilter(p, req[r].user_id) }
             IN \E hits \in SUBSET match :
                  /\ Cardinality(hits) = Min(TOP_K, Cardinality(match))
                  /\ Step(r, Finished([req[r] EXCEPT
                                         !.hits = hits,
                                         !.issued = Append(@, "search")],
                                      "returned", ""))
    /\ UNCHANGED <<chat, chunking, collections, points, profiles, openai_keys, nreq,
                   deleted_ok, eceFault, eceOverlap>>

\* ----------------------------------------------------------------- chat

\* Mutant of ProfileByUsername: rows that are not published are found too
ProfileByUsernameUnpublished(rows, username, lookup_ok) ==
    LET ids == { u.id : u \in { v \in users : v.username = username } }
        found == { row \in rows : row.user_id \in ids /\ row.is_active }
    IN IF lookup_ok /\ Cardinality(ids) = 1 /\ Cardinality(found) = 1
         THEN found
         ELSE {}

\* supabase.py:132-154  get_user_profile_by_username: the set holding the
\* active and published row of the user that has the username, empty (None)
\* when a lookup fails, when single() meets no row or more than one
ProfileByUsername(rows, username, lookup_ok) ==
    LET ids == { u.id : u \in { v \in users : v.username = username } }
        found == { row \in rows : /\ row.user_id \in ids
                                   /\ row.is_active
                                   /\ row.is_published }
    IN IF lookup_ok /\ Cardinality(ids) = 1 /\ Cardinality(found) = 1
         THEN found
         ELSE {}

\* deps/supabase_auth.py:61-65  the keys of the dict get_current_user returns
CurrentUserKeys == {"user_id", "email", "role"}

\* routes/agent.py:78-80, 141-143  the answer to an exception that is not an
\* HTTPException
UnknownError(kind) ==
    IF kind = "chat" THEN "Unknown chat error."
                     ELSE "Unknown chat stream error."

\* routes/agent.py:39-49, 97-106  the tenant a chat request is resolved to,
\* or the error it is answered with: user["username"] raises KeyError when
\* the dict has no such key
ChatResolve(kind, caller, username, rows, lookup_ok) ==
    LET name == IF username # "" THEN username ELSE Username(caller)
        profile == ProfileByUsername(rows, name, lookup_ok)
        cause == IF ~lookup_ok THEN "upstream"
                 ELSE IF \A u \in users : u.username # name THEN "no user"
                 ELSE "no profile"
    IN IF username = "" /\ "username" \notin CurrentUserKeys
         THEN [user_id |-> caller, status |-> "500",
               detail |-> UnknownError(kind), cause |-> "KeyError"]
       ELSE IF profile = {}
         THEN [user_id |-> IF username = "" THEN caller ELSE "",
               status |-> "404",
               detail |-> IF username # ""
                            THEN "User profile not found or not published."
                            ELSE "Active profile not found for user.",
               cause |-> cause]
       ELSE [user_id |-> IF username = ""
                           THEN caller
                           ELSE (CHOOSE row \in profile : TRUE).user_id,
             status |-> "", detail |-> "", cause |-> ""]

\* vectorstore.py:90  the parameters of query_profile_vectors that have no
\* default
QueryRequired == {"user_id", "query_text", "openai_key"}

\* Mutant of ChatCallArgs: the call passes the credential
ChatCallArgsWithKey == {"user_id", "query_text", "openai_key", "top_k"}

\* routes/agent.py:58, 115  the arguments of the call
\* query_profile_vectors(user_id, data.messages[-1]["content"], top_k=6)
ChatCallArgs == {"user_id", "query_text", "top_k"}

\* A call binds when every parameter without a default is given; Python
\* raises TypeError before the body runs otherwise
CallBinds(required, given) == required \subseteq given

\* routes/agent.py:63, 120  "\n".join(...)
RECURSIVE JoinLines(_)
JoinLines(texts) ==
    IF Len(texts) = 0 THEN << >>
    ELSE IF Len(texts) = 1 THEN <<texts[1]>>
    ELSE <<texts[1], "\n">> \o JoinLines(Tail(texts))

\* The orders in which a search can return the points of a set
Rankings(S) ==
    { f \in [1..Cardinality(S) -> S] :
        \A i, j \in 1..Cardinality(S) : f[i] = f[j] => i = j }

\* A chat request is answered
ChatDone(rec, status, detail) ==
    [rec EXCEPT !.pc = "done", !.status = status, !.detail = detail,
                !.outcomes = @ \cup {<<rec.cause, status, detail>>}]

\* Mutant of AfterRetrieval: the call of query_profile_vectors is not
\* wrapped in try/except
AfterRetrievalUnhandled(rec, retrieval, chunks) ==
    IF retrieval = "raised"
      THEN ChatDone([rec EXCEPT !.retrieval = retrieval], "500",
                    UnknownError(rec.kind))
      ELSE [rec EXCEPT !.pc = "complete", !.retrieval = retrieval,
                       !.context = JoinLines([i \in 1..Len(chunks) |->
                                                chunks[i].text])]

\* routes/agent.py:57-63, 114-120  the request after the call of
\* query_profile_vectors: an exception leaves context_chunks empty
AfterRetrieval(rec, retrieval, chunks) ==
    LET context_chunks == IF retrieval = "raised" THEN << >> ELSE chunks
    IN [rec EXCEPT !.pc = "complete", !.retrieval = retrieval,
                   !.context = JoinLines([i \in 1..Len(context_chunks) |->
                                            context_chunks[i].text])]

\* utils/agent.py:31, 57  the fixed text given when the service call fails
ServiceUnavailable == <<"AI service unavailable. Please try again later.">>

\* utils/agent.py:28
NoAnswerReturned == <<"No answer returned.">>

\* The texts a completion choice can carry: a text, and None (<< >>)
Contents == { <<"x">>, << >> }

\* Mutant of AgentReply: a failure of the service call is not caught
AgentReplyPropagates(outcome, content) ==
    CASE outcome = "failed"     -> [raised |-> TRUE, text |-> << >>]
      [] outcome = "no choices" -> [raised |-> FALSE, text |-> NoAnswerReturned]
      [] outcome = "choices"    -> [raised |-> FALSE, text |-> content]

\* utils/agent.py:12-31  what ask_openai_agent returns: the content of the
\* first choice, or one of the two fixed texts
AgentReply(outcome, content) ==
    CASE outcome = "failed"     -> [raised |-> FALSE, text |-> ServiceUnavailable]
      [] outcome = "no choices" -> [raised |-> FALSE, text |-> NoAnswerReturned]
      [] outcome = "choices"    -> [raised |-> FALSE, text |-> content]

\* The fragments the completion service sends: texts, one of them holding a
\* line break, and the empty delta (<< >>)
Fragments == { <<"x">>, <<"y">>, <<"x", "\n", "y">>, << >> }

\* routes/agent.py:132  f"data: {chunk}\n"
Data(chunk) == <<"data: ">> \o chunk \o <<"\n">>

\* utils/agent.py:50-54, routes/agent.py:125-132  the items yielded after a
\* chunk of the service arrived: a delta with content is forwarded
StreamOnFragment(emitted, fragment) ==
    IF fragment # << >> THEN Append(emitted, Data(fragment)) ELSE emitted

\* Mutant of StreamOnFailure: the generator ends without a fallback
StreamOnFailureSilent(emitted) == emitted

\* utils/agent.py:55-57, routes/agent.py:132  the items yielded after the
\* service failed: the fallback, after which the generator returns
StreamOnFailure(emitted) == Append(emitted, Data(ServiceUnavailable))

\* A chat request arrives and is resolved to a tenant
ChatArrive(kind, t, username) ==
    /\ chat.pc \in {"idle", "done"}
    /\ chat.n < MaxChats
    /\ \E lookup_ok \in BOOLEAN :
         LET res == ChatResolve(kind, t, username, profiles, lookup_ok)
             rec == [NoChat EXCEPT !.n = chat.n + 1, !.kind = kind,
                                   !.caller = t, !.username = username,
                                   !.user_id = res.user_id,
                                   !.cause = res.cause,
                                   !.failed = ~lookup_ok,
                                   !.outcomes = chat.outcomes]
         IN /\ IF lookup_ok THEN NoFault
                            ELSE Fault /\ res.cause = "upstream"
            /\ chat' = IF res.status # ""
                         THEN ChatDone(rec, res.status, res.detail)
                         ELSE [rec EXCEPT !.pc = "key"]
    /\ UNCHANGED <<collections, points, profiles, openai_keys, nreq, req,
                   last, deleted_ok, eceFault, eceOverlap, chunking>>

\* routes/agent.py:27-49
agent_chat(t, username) == ChatArrive("chat", t, username)

\* routes/agent.py:85-106
agent_chat_stream(t, username) == ChatArrive("chat_stream", t, username)

\* routes/agent.py:51-54, 108-111
chat_fetch_key ==
    /\ chat.pc = "key"
    /\ \E lookup_ok \in BOOLEAN :
         /\ IF lookup_ok THEN NoFault ELSE Fault
         /\ chat' =
              IF KeyFound(openai_keys, chat.user_id, lookup_ok)
                THEN [chat EXCEPT !.pc = "retrieve", !.openai_key = TRUE]
                ELSE ChatDone([chat EXCEPT !.failed = @ \/ ~lookup_ok], "400",
                              "No OpenAI key found for this user.")
    /\ UNCHANGED <<collections, points, profiles, openai_keys, nreq, req,
                   last, deleted_ok, eceFault, eceOverlap, chunking>>

\* routes/agent.py:56-63, 113-120, vectorstore.py:90-114  the call of
\* query_profile_vectors: TypeError when the call does not bind; otherwise
\* the collection is ensured, the query embedded and the search made
chat_retrieve ==
    /\ chat.pc = "retrieve"
    /\ IF ~CallBinds(QueryRequired, ChatCallArgs)
         THEN /\ NoFault
              /\ collections' = collections
              /\ chat' = AfterRetrieval(chat, "raised", << >>)
         ELSE \/ /\ Fault
                 /\ collections' = collections
                 /\ \E how \in {"raised", "returned"} :
                      chat' = AfterRetrieval([chat EXCEPT !.failed = TRUE],
                                             how, << >>)
              \/ /\ NoFault
                 /\ collections' =
                      IF CollectionMissing(collections)
                        THEN WithPayloadIndex(collections \cup {NewCollection})
                        ELSE collections
                 /\ LET match == { p \in points :
                                     SearchFilter(p, chat.user_id) }
                    IN \E hits \in SUBSET match :
                         /\ Cardinality(hits) =
                              Min(TOP_K, Cardinality(match))
                         /\ \E chunks \in Rankings(hits) :
                              chat' = AfterRetrieval(chat, "returned", chunks)
    /\ UNCHANGED <<points, profiles, openai_keys, nreq, req, last,
                   deleted_ok, eceFault, eceOverlap, chunking>>

\* routes/agent.py:65-80, utils/agent.py:8-31  the completion service is
\* called with the context and the request is answered
ask_openai_agent ==
    /\ chat.pc = "complete"
    /\ chat.kind = "chat"
    /\ \E outcome \in {"failed", "no choices", "choices"},
          content \in Contents :
         LET reply == AgentReply(outcome, content)
             rec == [chat EXCEPT !.handed = Append(@, chat.context),
                                 !.completion = outcome,
                                 !.provider = <<content>>,
                                 !.failed = @ \/ outcome = "failed",
                                 !.answer = reply.text]
         IN /\ IF outcome = "failed" THEN Fault ELSE NoFault
            /\ outcome # "choices" => content = << >>
            /\ chat' = IF reply.raised
                         THEN ChatDone(rec, "500", UnknownError(chat.kind))
                         ELSE ChatDone(rec, "200", "answer")
    /\ UNCHANGED <<collections, points, profiles, openai_keys, nreq, req,
                   last, deleted_ok, eceFault, eceOverlap, chunking>>

\* routes/agent.py:123-137, utils/agent.py:38-49  the streaming response is
\* returned and the completion service is called in incremental mode
ask_openai_agent_stream ==
    /\ chat.pc = "complete"
    /\ chat.kind = "chat_stream"
    /\ LET rec == [chat EXCEPT !.handed = Append(@, chat.context),
                               !.status = "200", !.open = TRUE]
       IN \/ /\ Fault
             /\ chat' = ChatDone([rec EXCEPT
                                    !.completion = "failed",
                                    !.failed = TRUE,
                                    !.emitted = StreamOnFailure(@),
                                    !.open = FALSE],
                                 "200", "stream")
          \/ /\ NoFault
             /\ \E n \in 0..MaxFrags :
                  \E provider \in [1..n -> Fragments] :
                    chat' = [rec EXCEPT !.pc = "stream",
                                        !.provider = provider]
    /\ UNCHANGED <<collections, points, profiles, openai_keys, nreq, req,
                   last, deleted_ok, eceFault, eceOverlap, chunking>>

\* utils/agent.py:50-57, routes/agent.py:125-132  the generator is advanced:
\* the next chunk of the service arrives, the service fails, or its stream
\* has ended
stream_chunk ==
    /\ chat.pc = "stream"
    /\ \/ /\ NoFault
          /\ chat.recv < Len(chat.provider)
          /\ chat' = [chat EXCEPT
                        !.recv = @ + 1,
                        !.emitted =
                          StreamOnFragment(@, chat.provider[chat.recv + 1])]
       \/ /\ NoFault
          /\ chat.recv = Len(chat.provider)
          /\ chat' = ChatDone([chat EXCEPT !.completion = "ended",
                                           !.open = FALSE],
                              "200", "stream")
       \/ /\ Fault
          /\ chat' = ChatDone([chat EXCEPT !.completion = "failed",
                                           !.failed = TRUE,
                                           !.emitted = StreamOnFailure(@),
                                           !.open = FALSE],
                              "200", "stream")
    /\ UNCHANGED <<collections, points, profiles, openai_keys, nreq, req,
                   last, deleted_ok, eceFault, eceOverlap, chunking>>

\* The active profile row of a tenant is published.  insert writes
\* is_published False (supabase.py:111) and get_user_profile_by_username
\* reads it (supabase.py:147); the column is set by a client of the
\* relational store that is not part of the backend.
publish_profile(t) ==
    /\ \E row \in ActiveRows(profiles, t) : ~row.is_published
    /\ profiles' = { IF row.user_id = t /\ row.is_active
                       THEN [row EXCEPT !.is_published = TRUE]
                       ELSE row : row \in profiles }
    /\ UNCHANGED <<collections, points, openai_keys, nreq, req, last,
                   deleted_ok, faults, eceFault, eceOverlap, chat, chunking>>

\* The file the tenants have uploaded before the chat requests arrive
UploadedFile == CHOOSE f \in Files : f.name = "cv.md"

\* upload_file.py:87-122  the record of upload request i of tenant t after
\* it returned "uploaded"
UploadedRequest(i, t) ==
    Finished([Request("upload", t, UploadedFile, TRUE, "insert", "", "", "")
                EXCEPT !.id = i, !.ensures = 2,
                       !.issued = <<"deactivate", "delete", "upsert",
                                    "insert">>],
             "200", "uploaded")

\* The state after the tenants of a sequence have each uploaded the file
\* with success, one after the other: the chat requests start from there
InitChat ==
    \E order \in { << >>, <<"u1">>, <<"u2">>, <<"u1", "u2">> } :
        /\ collections = IF order = << >> THEN {}
                         ELSE WithPayloadIndex({NewCollection})
        /\ points = UNION { EmbeddedDocs(i, order[i],
                                         split_text(UploadedFile.text)) :
                              i \in 1..Len(order) }
        /\ profiles = { NewProfileRow(i, order[i], UploadedFile.name) :
                          i \in 1..Len(order) }
        /\ openai_keys = { order[i] : i \in 1..Len(order) }
        /\ nreq = Len(order)
        /\ req = << >>
        /\ last = IF order = << >> THEN NoRequest
                  ELSE UploadedRequest(Len(order), order[Len(order)])
        /\ deleted_ok = {}
        /\ faults = 0
        /\ eceFault = FALSE
        /\ eceOverlap = FALSE
        /\ chat = NoChat
        /\ chunking = NoChunking

NextChat ==
    \/ \E t \in Tenants : update_openai_key(t)
    \/ \E t \in Tenants : publish_profile(t)
    \/ \E t \in Tenants, username \in Selectors : agent_chat(t, username)
    \/ \E t \in Tenants, username \in Selectors : agent_chat_stream(t, username)
    \/ chat_fetch_key
    \/ chat_retrieve
    \/ ask_openai_agent
    \/ ask_openai_agent_stream
    \/ stream_chunk

SpecChat == InitChat /\ [][NextChat]_vars

\* ------------------------------------------------------------- chunking

\* core/config.py:35-36
DEFAULT_CHUNK_SIZE == 400
DEFAULT_CHUNK_OVERLAP == 20

\* vectorstore.py:123, 132  the plan tiers: the default "free" and the three
\* for which custom chunking is used
Plans == {"free", "paid", "premium", "pro"}

\* The values a caller can give for chunk_size and chunk_overlap; << >> is
\* None
ChunkSizes == { << >>, <<0>>, <<99>>, <<100>>, <<500>> }
ChunkOverlaps == { << >>, <<-1>>, <<0>>, <<20>>, <<100>>, <<500>> }

\* Python's truth value of an optional integer
Truthy(x) == x # << >> /\ x[1] # 0

\* upload_file.py:81-84  the chunk settings the upload request computes
UploadChunkSettings(chunk_size, chunk_overlap) ==
    [size |-> IF Truthy(chunk_size) /\ chunk_size[1] >= 100
                THEN chunk_size[1] ELSE DEFAULT_CHUNK_SIZE,
     overlap |-> IF Truthy(chunk_overlap) /\ chunk_overlap[1] >= 0
                   THEN chunk_overlap[1] ELSE DEFAULT_CHUNK_OVERLAP]

\* vectorstore.py:132-141  the size and overlap store_profile_vectors gives
\* to RecursiveCharacterTextSplitter (line 149)
StoreChunkSettings(user_plan, chunk_size, chunk_overlap) ==
    LET use_custom_chunks == user_plan \in {"paid", "premium", "pro"}
    IN IF use_custom_chunks
         THEN [size |-> IF Truthy(chunk_size) /\ chunk_size[1] >= 100
                          THEN chunk_size[1] ELSE DEFAULT_CHUNK_SIZE,
               overlap |-> IF Truthy(chunk_overlap) /\ chunk_overlap[1] >= 0
                             THEN chunk_overlap[1]
                             ELSE DEFAULT_CHUNK_OVERLAP]
         ELSE [size |-> DEFAULT_CHUNK_SIZE,
               overlap |-> DEFAULT_CHUNK_OVERLAP]

\* A model name is a sequence of symbols, so that a prefix is computed;
\* the empty sequence is the empty string
TextEmbedding == "text-embedding"

\* core/config.py:15  settings.EMBEDDING_MODEL
EMBEDDING_MODEL == <<TextEmbedding, "-3-small">>

\* The values of a model argument: None (<< >>), the empty string, the
\* chat models update_key.py:13 lets a tenant store, and names of embedding
\* models, one of them of no model the provider has
ModelArgs ==
    { << >>, << << >> >>, << <<"gpt-4o">> >>, << <<"gpt-4", "-turbo">> >>,
      << <<TextEmbedding, "-3-small">> >>,
      << <<TextEmbedding, "-3-large">> >>,
      << <<TextEmbedding, "-bogus">> >> }

\* Python's x or y for an optional string: y when x is None or empty
Or(x, y) == IF x # << >> /\ x[1] # << >> THEN x[1] ELSE y

\* str.startswith("text-embedding")
StartsWithTextEmbedding(name) == Len(name) >= 1 /\ name[1] = TextEmbedding

\* vectorstore.py:45-50
get_valid_embedding_model(model) ==
    LET model_candidate == Or(model, EMBEDDING_MODEL)
    IN IF model_candidate = << >> \/ ~StartsWithTextEmbedding(model_candidate)
         THEN <<TextEmbedding, "-3-small">>
         ELSE model_candidate

\* embeddings.py:14  the model get_text_embedding embeds with
emb_model(model) == Or(model, EMBEDDING_MODEL)

\* upload_file.py:71, 80-85, 97-100  the upload request reads the tenant's
\* model, computes its settings and calls store_profile_vectors with them
\* and without user_plan, which is then "free"
upload_chunk_settings ==
    /\ chunking.pc = "upload_profile"
    /\ LET own == UploadChunkSettings(chunking.chunk_size,
                                      chunking.chunk_overlap)
       IN chunking' = [chunking EXCEPT !.pc = "store_profile_vectors",
                                       !.user_plan = "free",
                                       !.chunk_size = <<own.size>>,
                                       !.chunk_overlap = <<own.overlap>>]
    /\ UNCHANGED <<collections, points, profiles, openai_keys, nreq, req,
                   last, deleted_ok, faults, eceFault, eceOverlap, chat>>

\* vectorstore.py:132-170  store_profile_vectors builds the text splitter,
\* resolves the model and gives every point of the call its payload
store_chunk_settings ==
    /\ chunking.pc = "store_profile_vectors"
    /\ LET used == StoreChunkSettings(chunking.user_plan, chunking.chunk_size,
                                      chunking.chunk_overlap)
           payload == [model |-> get_valid_embedding_model(chunking.model),
                       chunk_size |-> used.size,
                       chunk_overlap |-> used.overlap,
                       plan |-> chunking.user_plan]
       IN chunking' = [chunking EXCEPT !.pc = "split_text",
                                       !.size = used.size,
                                       !.overlap = used.overlap,
                                       !.payload = <<payload>>]
    /\ UNCHANGED <<collections, points, profiles, openai_keys, nreq, req,
                   last, deleted_ok, faults, eceFault, eceOverlap, chat>>

\* upload_file.py:104-112, supabase.py:92-112  the upload request inserts the
\* profile row with the settings it computed and the tenant's model
insert_chunk_metadata ==
    /\ chunking.pc = "split_text"
    /\ chunking.via = "upload_profile"
    /\ chunking.row = << >>
    /\ chunking' = [chunking EXCEPT
                      !.row = <<[embedding_model |-> chunking.model,
                                 chunk_size |-> chunking.chunk_size[1],
                                 chunk_overlap |-> chunking.chunk_overlap[1]]>>]
    /\ UNCHANGED <<collections, points, profiles, openai_keys, nreq, req,
                   last, deleted_ok, faults, eceFault, eceOverlap, chat>>

\* vectorstore.py:90-93, embeddings.py:14  a later call of
\* query_profile_vectors for the tenant embeds the query: with the tenant's
\* model as its model argument, or with no model argument as agent.py:58
\* and 115 call it
query_embedding ==
    /\ chunking.pc = "split_text"
    /\ chunking.via = "upload_profile" => chunking.row # << >>
    /\ \E model \in {chunking.model, << >>} :
         chunking' = [chunking EXCEPT !.pc = "get_text_embedding",
                                      !.query_model = <<emb_model(model)>>]
    /\ UNCHANGED <<collections, points, profiles, openai_keys, nreq, req,
                   last, deleted_ok, faults, eceFault, eceOverlap, chat>>

\* A call of store_profile_vectors with any model, plan, size and overlap,
\* or an upload request of a tenant of any plan and model with any size and
\* overlap
InitChunk ==
    /\ collections = {}
    /\ points = {}
    /\ profiles = {}
    /\ openai_keys = {}
    /\ nreq = 0
    /\ req = << >>
    /\ last = NoRequest
    /\ deleted_ok = {}
    /\ faults = 0
    /\ eceFault = FALSE
    /\ eceOverlap = FALSE
    /\ chat = NoChat
    /\ \E chunk_size \in ChunkSizes, chunk_overlap \in ChunkOverlaps,
          plan \in Plans, model \in ModelArgs :
         LET call == [NoChunking EXCEPT !.plan = plan,
                                        !.model = model,
                                        !.form_size = chunk_size,
                                        !.form_overlap = chunk_overlap,
                                        !.chunk_size = chunk_size,
                                        !.chunk_overlap = chunk_overlap]
         IN \/ chunking = [call EXCEPT !.pc = "store_profile_vectors",
                                       !.via = "store_profile_vectors",
                                       !.user_plan = plan]
            \/ chunking = [call EXCEPT !.pc = "upload_profile",
                                       !.via = "upload_profile"]

NextChunk ==
    \/ upload_chunk_settings
    \/ store_chunk_settings
    \/ insert_chunk_metadata
    \/ query_embedding

SpecChunk == InitChunk /\ [][NextChunk]_vars

Next ==
    \/ \E t \in Tenants : update_openai_key(t)
    \/ \E t \in Tenants, file \in Files : upload_profile(t, file)
    \/ \E t \in Tenants : delete_profile(t)
    \/ \E t \in Tenants : query_profile_vectors_call(t)
    \/ \E r \in InFlight : deactivate_user_profiles(r)
    \/ \E r \in InFlight : ensure_collection_exists(r)
    \/ \E r \in InFlight : create_collection(r)
    \/ \E r \in InFlight : create_payload_index(r)
    \/ \E r \in InFlight : delete_user_vectors(r)
    \/ \E r \in InFlight : store_profile_vectors(r)
    \/ \E r \in InFlight : insert_user_profile_metadata(r)
    \/ \E r \in InFlight : query_profile_vectors(r)

Spec == Init /\ [][Next]_vars

\* ------------------------------------------------------------ properties

\* The requests the state still knows: those in flight and the last one
\* that finished
Reqs == { req[i] : i \in InFlight } \cup {last}

PointsOf(t) == { p \in points : p.user_id = t }
PointsOfGen(g) == { p \in points : p.id[1] = g }
Gens(t) == { p.id[1] : p \in PointsOf(t) }
Calls(rec) == { rec.issued[i] : i \in 1..Len(rec.issued) }

\* C1  Tenant isolation: every hit that query_profile_vectors returns for a
\* tenant is a point whose payload user_id is that tenant, whatever uploads
\* and deletes of any tenants came before; a point stored for another
\* tenant is never returned.
C1_TenantIsolation ==
    \A rec \in Reqs :
        \A p \in rec.hits : p.user_id = rec.user_id

\* A search has run for one tenant while the index held points of another.
C1_Witness ==
    /\ InFlight = {}
    /\ last.kind = "query"
    /\ "search" \in Calls(last)
    /\ \E p \in points : p.user_id # last.user_id

\* C2  Replace invariant: when an upload of a tenant has returned success
\* and no other request of that tenant ran together with it or has arrived
\* since, the tenant's points are exactly the chunks of the uploaded text,
\* all of this upload; no point of an earlier upload remains.
C2_ReplaceInvariant ==
    ( /\ last.kind = "upload"
      /\ last.status = "200"
      /\ last.alone
      /\ ~Busy(last.user_id) )
    => /\ PointsOf(last.user_id) =
            EmbeddedDocs(last.id, last.user_id, split_text(last.file.text))
       /\ { p.text : p \in PointsOf(last.user_id) } =
            { last.file.text[i] : i \in 1..Len(last.file.text) }

\* The second of two successful uploads of one tenant, of another file than
\* the first, has returned.
C2_Witness ==
    /\ last.kind = "upload"
    /\ last.status = "200"
    /\ last.alone
    /\ ~Busy(last.user_id)
    /\ \E row \in profiles :
         /\ row.user_id = last.user_id
         /\ row.id # last.id
         /\ row.original_filename # last.file.name

\* C3  Delete completeness: once a delete request of a tenant has returned
\* success, the index holds no point of that tenant, and a retrieval for
\* the tenant returns nothing, until an upload upserts for the tenant again.
C3_DeleteCompleteness ==
    \A t \in deleted_ok :
        /\ PointsOf(t) = {}
        /\ (last.kind = "query" /\ last.user_id = t) => last.hits = {}

\* A delete request has returned success for a tenant that had uploaded a
\* profile.
C3_Witness ==
    /\ last.kind = "delete"
    /\ last.status = "200"
    /\ last.found > 0
    /\ last.user_id \in deleted_ok
    /\ \E row \in profiles : row.user_id = last.user_id

C5_OneGenerationAfterUploads ==
    \A t \in Tenants : ~Busy(t) => Cardinality(Gens(t)) <= 1

\* C6  No partial generation: an upload that failed in embedding or in the
\* upsert has none of its points in the index, and the index holds all the
\* points of an upload or none of them.
C6_NoPartialGeneration ==
    \A rec \in Reqs :
        rec.kind = "upload"
        => /\ rec.status = "500" => PointsOfGen(rec.id) = {}
           /\ PointsOfGen(rec.id) \in
                { {}, EmbeddedDocs(rec.id, rec.user_id,
                                   split_text(rec.file.text)) }

\* An upload of a two-chunk text has failed inside store_profile_vectors,
\* after its delete.
C6_Witness ==
    /\ last.kind = "upload"
    /\ last.status = "500"
    /\ last.raised = "fault"
    /\ last.ensures = 2
    /\ last.issued = <<"deactivate", "delete">>
    /\ Len(last.file.text) = 2

\* C7  Within one upload request the delete of the tenant's points has
\* completed before any point of the upload is upserted.
C7_DeleteBeforeUpsert ==
    \A rec \in Reqs :
        rec.kind = "upload"
        => /\ PointsOfGen(rec.id) # {} => "delete" \in Calls(rec)
           /\ \A i \in 1..Len(rec.issued) :
                rec.issued[i] = "upsert"
                => \E j \in 1..(i - 1) : rec.issued[j] = "delete"

\* An upload has upserted its points and is about to insert its metadata row.
C7_Witness ==
    \E r \in InFlight :
        /\ req[r].pc = "insert"
        /\ PointsOfGen(r) # {}
        /\ req[r].issued = <<"deactivate", "delete", "upsert">>

\* The inputs the claim C8 names: unsupported type, empty text, no credential
C8_Rejected(rec) ==
    /\ rec.kind = "upload"
    /\ \/ rec.file.ext \notin {".pdf", ".txt", ".md"}
       \/ rec.file.text = << >>
       \/ ~rec.openai_key

\* C8  An upload rejected for an unsupported file type, for empty text or
\* for a missing credential is answered at once, issues no deactivate,
\* delete or upsert, and leaves the points and the profile rows unchanged.
C8_RejectedUploadChangesNothing ==
    [][ \A rec \in { req'[i] : i \in DOMAIN req' } \cup {last'} :
          C8_Rejected(rec)
          => /\ rec.pc = "done"
             /\ rec.status \in {"400", "500"}
             /\ rec.issued = << >>
             /\ (nreq' # nreq /\ rec.id = nreq')
                => (points' = points /\ profiles' = profiles) ]_vars

\* An upload of a tenant that has points and an active profile row has been
\* rejected.
C8_Witness ==
    /\ C8_Rejected(last)
    /\ last.status = "400"
    /\ PointsOf(last.user_id) # {}
    /\ ActiveRows(profiles, last.user_id) # {}

\* The schema the claims C9 and C10 name
ConfiguredCollection ==
    [name |-> "career_profiles", size |-> 1536, distance |-> "Cosine",
     payload_index |-> {<<"user_id", "keyword">>}]

\* C9  Calls of ensure_collection_exists made one after another, none of
\* whose remote calls fails, leave exactly one collection, with the
\* configured schema, and none of them raises.
C9_IdempotentCollectionCreation ==
    (~eceOverlap /\ ~eceFault)
    => /\ \A rec \in Reqs : rec.raised # "conflict"
       /\ (\E rec \in Reqs : rec.ensures >= 1)
          => collections = {ConfiguredCollection}

\* A request has had two calls of ensure_collection_exists return, the
\* first of which created the collection.
C9_Witness ==
    /\ ~eceOverlap
    /\ ~eceFault
    /\ nreq = 1
    /\ \E rec \in Reqs : rec.ensures = 2

\* C10 (as stated)  When two requests run ensure_collection_exists
\* concurrently while the collection is absent, both calls return without
\* error and one collection with the user_id index is left.
C10_ConcurrentEnsureIsSafe ==
    /\ \A rec \in Reqs : rec.raised # "conflict"
    /\ (InFlight = {} /\ ~eceFault /\ collections # {})
       => collections = {ConfiguredCollection}

\* ------------------------------------------------ properties of the chat

\* C11 (as stated)  In a chat request for a tenant that has live points,
\* when no upstream call fails, the retrieval returns and the grounding
\* context handed to the completion service is the newline-join of texts of
\* that tenant's points, and is not empty.
C11_GroundedContext ==
    ( /\ chat.handed # << >>
      /\ ~chat.failed
      /\ PointsOf(chat.user_id) # {} )
    => /\ chat.retrieval = "returned"
       /\ chat.handed[1] # << >>
       /\ \E hits \in SUBSET PointsOf(chat.user_id) :
            \E chunks \in Rankings(hits) :
              chat.handed[1] =
                JoinLines([i \in 1..Len(chunks) |-> chunks[i].text])

\* C12 (as stated)  A chat request without a selector, from a caller that
\* has an active profile row and a credential, is resolved to the caller's
\* tenant and goes on to retrieval and completion; it is not answered with
\* an error.
C12_AbsentSelectorServesCaller ==
    [][ ( /\ chat'.n = chat.n + 1
          /\ chat'.username = ""
          /\ ~chat'.failed
          /\ ActiveRows(profiles, chat'.caller) # {}
          /\ chat'.caller \in openai_keys )
        => /\ chat'.pc = "key"
           /\ chat'.user_id = chat'.caller ]_vars

\* The fragments of a sequence that carry text
WithText(fragments) == SelectSeq(fragments, LAMBDA f : f # << >>)

\* The characters a caller receives: the items yielded, one after the other
RECURSIVE Wire(_)
Wire(items) ==
    IF items = << >> THEN << >> ELSE Head(items) \o Wire(Tail(items))

\* The lines of a text, each ended by a line break
RECURSIVE LinesFrom(_, _)
LinesFrom(text, line) ==
    IF text = << >> THEN (IF line = << >> THEN << >> ELSE <<line>>)
    ELSE IF Head(text) = "\n" THEN <<line>> \o LinesFrom(Tail(text), << >>)
    ELSE LinesFrom(Tail(text), Append(line, Head(text)))

Lines(text) == LinesFrom(text, << >>)

\* The items yielded for a sequence of fragments, one per fragment
DataItems(fragments) == [i \in 1..Len(fragments) |-> Data(fragments[i])]

\* The stream of a chat request that the completion service ended without
\* failing yields one item per fragment with text, in the order of arrival.
StreamItemsInOrder ==
    (chat.kind = "chat_stream" /\ chat.completion = "ended")
    => chat.emitted = DataItems(WithText(chat.provider))

\* C13 (as stated)  The stream of a chat request that the completion
\* service ended without failing carries the service's non-empty fragments
\* in arrival order, each as its own line "data: <fragment>", none dropped,
\* duplicated, merged or reordered.
C13_StreamIsTheFragments ==
    (chat.kind = "chat_stream" /\ chat.completion = "ended")
    => LET fragments == WithText(chat.provider)
       IN /\ Len(chat.emitted) = Len(fragments)
          /\ Lines(Wire(chat.emitted)) =
               [i \in 1..Len(fragments) |-> <<"data: ">> \o fragments[i]]

\* C14  When the completion service fails in a streaming chat, before the
\* first fragment or after some, the stream has yielded the fragments
\* received so far, then the fallback once, and is closed; the fallback is
\* never followed by another item.
C14_FallbackThenClose ==
    /\ (chat.kind = "chat_stream" /\ chat.completion = "failed")
       => /\ chat.pc = "done"
          /\ ~chat.open
          /\ chat.emitted =
               DataItems(WithText(SubSeq(chat.provider, 1, chat.recv)))
                 \o <<Data(ServiceUnavailable)>>
    /\ \A i \in 1..Len(chat.emitted) :
         chat.emitted[i] = Data(ServiceUnavailable)
         => i = Len(chat.emitted) /\ ~chat.open /\ chat.completion = "failed"

\* The completion service has failed after a fragment with text was
\* forwarded.
C14_Witness ==
    /\ chat.kind = "chat_stream"
    /\ chat.completion = "failed"
    /\ chat.recv >= 1
    /\ Len(chat.emitted) = 2
    /\ chat.recv < Len(chat.provider)

\* C16  ask_openai_agent never raises: the answer of a chat request is the
\* content of the first choice when the service returns one, "No answer
\* returned." when it returns no choice, and "AI service unavailable.
\* Please try again later." when the service call fails.
C16_AgentReplyNeverRaises ==
    (chat.kind = "chat" /\ chat.completion # "")
    => /\ chat.pc = "done"
       /\ chat.status = "200"
       /\ chat.completion = "choices" => chat.answer = chat.provider[1]
       /\ chat.completion = "no choices"
            => chat.answer = <<"No answer returned.">>
       /\ chat.completion = "failed"
            => chat.answer =
                 <<"AI service unavailable. Please try again later.">>

\* The service call of a chat request has failed and the request has been
\* answered.
C16_Witness ==
    /\ chat.kind = "chat"
    /\ chat.completion = "failed"
    /\ chat.pc = "done"
    /\ chat.answer # << >>

\* C18  A retrieval that raised or returned nothing does not fail the chat
\* request: the completion service is called with the empty context and
\* the request is answered with 200, in /chat and in /chat/stream.
C18_RetrievalFailureStillAnswers ==
    (chat.retrieval # "" /\ chat.context = << >>)
    => /\ chat.pc \in {"complete", "stream", "done"}
       /\ chat.pc # "complete"
            => chat.handed = << << >> >> /\ chat.status = "200"

\* A streaming chat whose retrieval raised has been answered with a stream.
C18_Witness ==
    /\ chat.kind = "chat_stream"
    /\ chat.retrieval = "raised"
    /\ chat.pc = "done"
    /\ chat.completion = "ended"
    /\ chat.emitted # << >>

\* C19 (as stated)  A chat request for a tenant that has no active profile
\* is answered differently from one whose lookup in the relational store
\* failed.
C19_NoProfileIsDistinct ==
    \A a, b \in chat.outcomes :
        (a[1] = "no profile" /\ b[1] = "upstream")
        => <<a[2], a[3]>> # <<b[2], b[3]>>

\* C17 (as stated)  query_profile_vectors returns the empty sequence and
\* does not raise, when the query embedding fails and when the collection
\* check or the search fails.
C17_QueryNeverRaises ==
    \A rec \in Reqs :
        (rec.kind = "query" /\ rec.pc = "done")
        => rec.status = "returned" /\ (rec.raised # "" => rec.hits = {})

\* C17 (amended)  query_profile_vectors returns the empty sequence when the
\* query embedding fails; when the collection check or the search fails it
\* raises to its caller and returns nothing.
C17_QueryRaisesOnIndexFailure ==
    \A rec \in Reqs :
        (rec.kind = "query" /\ rec.pc = "done")
        => /\ rec.status \in {"returned", "raised"}
           /\ rec.detail = "no embedding"
                => rec.status = "returned" /\ rec.hits = {}
           /\ rec.raised # "" <=> rec.status = "raised"
           /\ rec.status = "raised" => rec.hits = {}

\* A call of query_profile_vectors whose collection check passed has been
\* ended by the failure of the search.
C17_Witness ==
    /\ last.kind = "query"
    /\ last.status = "raised"
    /\ last.raised = "fault"
    /\ last.ensures = 1
    /\ last.openai_key

\* ------------------------------------------- properties of the chunking

\* C20 (as stated)  Whatever the plan tier and the chunk_size and
\* chunk_overlap given, absent values included, the size and overlap that
\* store_profile_vectors hands to the chunker satisfy size >= 100,
\* overlap >= 0 and overlap < size.
C20_ChunkerParametersInRange ==
    chunking.pc = "split_text"
    => /\ chunking.size >= 100
       /\ chunking.overlap >= 0
       /\ chunking.overlap < chunking.size

\* The embedding models the provider has
SupportedEmbeddingModels ==
    { <<TextEmbedding, "-3-small">>, <<TextEmbedding, "-3-large">>,
      <<TextEmbedding, "-ada-002">> }

\* C21 (as stated)  get_valid_embedding_model returns, for every model
\* name given to it, absent and malformed ones included, a supported
\* embedding model, and the default for every name outside the supported
\* set.
C21_ValidModelIsSupported ==
    chunking.payload # << >>
    => LET model == chunking.payload[1].model
       IN /\ model \in SupportedEmbeddingModels
          /\ Or(chunking.model, << >>) \notin SupportedEmbeddingModels
               => model = EMBEDDING_MODEL

\* -------------------------------------- properties of the error details

\* The fixed messages of a failed upload
UploadFailureMessages == {"Failed to extract text: ", "Embedding error: "}

\* C22 (as stated)  When an upload fails in text extraction, in embedding
\* or in the vector index, the detail returned to the caller is one of a
\* small fixed set of messages and holds no text of the exception.
C22_FixedFailureDetail ==
    (last.kind = "upload" /\ last.status = "500")
    => last.detail \in UploadFailureMessages

\* ------------------------------ properties of the model and the settings

\* C23 (as stated)  For every model setting of a tenant, the model a query
\* of the tenant's vectors is embedded with is the model
\* store_profile_vectors embedded the tenant's chunks with.
C23_QueryModelIsIngestionModel ==
    chunking.pc = "get_text_embedding"
    => chunking.query_model[1] = chunking.payload[1].model

\* The plan tiers of paying tenants
PaidPlans == {"paid", "premium", "pro"}

\* A size and an overlap within the constraints on chunk parameters
ValidChunkSettings(chunk_size, chunk_overlap) ==
    /\ chunk_size # << >> /\ chunk_overlap # << >>
    /\ chunk_size[1] >= 100
    /\ chunk_overlap[1] >= 0
    /\ chunk_overlap[1] < chunk_size[1]

\* C24 (as stated)  On the upload endpoint the valid chunk_size and
\* chunk_overlap a tenant of a paid plan supplies are the values the
\* document is chunked with, and the values a tenant of the free plan
\* supplies are replaced by the defaults.
C24_PaidPlanChunksAsAsked ==
    (chunking.pc = "split_text" /\ chunking.via = "upload_profile")
    => IF chunking.plan \in PaidPlans
         THEN ValidChunkSettings(chunking.form_size, chunking.form_overlap)
              => /\ chunking.size = chunking.form_size[1]
                 /\ chunking.overlap = chunking.form_overlap[1]
         ELSE /\ chunking.size = DEFAULT_CHUNK_SIZE
              /\ chunking.overlap = DEFAULT_CHUNK_OVERLAP

\* C28 (as stated)  After a successful upload the chunk_size and
\* chunk_overlap of the new profile row equal the chunk_size and
\* chunk_overlap in the payload of every point the upload stored.
C28_RowSettingsArePayloadSettings ==
    (chunking.via = "upload_profile" /\ chunking.row # << >>)
    => /\ chunking.row[1].chunk_size = chunking.payload[1].chunk_size
       /\ chunking.row[1].chunk_overlap = chunking.payload[1].chunk_overlap

\* ----------------------------------- properties of the chat admission

\* A chat request has just arrived that selects tenant t by its username
\* and whose lookups in the relational store succeeded
SelectsByName(t) ==
    /\ chat'.n = chat.n + 1
    /\ chat'.username = Username(t)
    /\ ~chat'.failed

\* C25 (as stated)  After a tenant's upload returned success, a chat
\* request that selects the tenant by its username is admitted and not
\* answered with "profile not found".
C25_UploadedIsAdmitted ==
    [][\A t \in Tenants :
         (SelectsByName(t) /\ ActiveRows(profiles, t) # {})
         => chat'.cause # "no profile"]_vars

\* C25 (amended)  After a tenant's upload returned success, a chat request
\* that selects the tenant by its username is admitted once the one active
\* row of the tenant has been published; until then it is answered 404
\* "User profile not found or not published.".
C25_AdmittedOncePublished ==
    [][\A t \in Tenants :
         (SelectsByName(t) /\ Cardinality(ActiveRows(profiles, t)) = 1)
         => IF \A row \in ActiveRows(profiles, t) : row.is_published
              THEN chat'.pc = "key" /\ chat'.user_id = t
              ELSE /\ chat'.pc = "done"
                   /\ chat'.status = "404"
                   /\ chat'.detail = "User profile not found or not published."]_vars

C25_Witness ==
    /\ chat.pc = "key"
    /\ chat.username # ""
    /\ chat.username = Username(chat.user_id)
    /\ last.kind = "upload" /\ last.status = "200"
    /\ \E row \in ActiveRows(profiles, chat.user_id) : row.is_published

\* ------------------------------------------ properties of the collection

\* C29 (as stated)  Whenever ensure_collection_exists returns normally, the
\* collection exists and has the keyword index on user_id, also when an
\* earlier call failed between create_collection and create_payload_index.
\* Stated for calls made one after another.
C29_EnsureReturnsIndexed ==
    (~eceOverlap /\ \E rec \in Reqs : rec.ensures >= 1)
    => /\ collections # {}
       /\ \A c \in collections :
            <<"user_id", "keyword">> \in c.payload_index

\* ------------------------------------ properties of the profile rows

\* C26 (as stated)  After an upload has ended, the tenant has at most one
\* profile row with is_active, also when uploads of the tenant interleave
\* or the deactivation of the old rows fails.
C26_AtMostOneActiveRow ==
    \A t \in Tenants :
        (~Busy(t) /\ last.kind = "upload" /\ last.user_id = t)
        => Cardinality(ActiveRows(profiles, t)) <= 1

\* C27 (as stated)  After an upload or a delete of a tenant has ended, with
\* success or with an error, the tenant has points in the collection
\* exactly when it has an active profile row.
C27_PointsIffActiveRow ==
    \A t \in Tenants :
        (~Busy(t) /\ last.kind \in {"upload", "delete"} /\ last.user_id = t)
        => (PointsOf(t) # {} <=> ActiveRows(profiles, t) # {})

\* ------------------------------------------- properties of the tenants

RowsOf(t) == { row \in profiles : row.user_id = t }

\* The step is taken by an upload, delete or query request of tenant t:
\* the request arrives, or it is in flight and moves
Actor(t) ==
    \/ /\ nreq' = nreq + 1
       /\ IF nreq' \in DOMAIN req' THEN req'[nreq'].user_id = t
                                   ELSE last'.user_id = t
    \/ /\ nreq' = nreq
       /\ \E i \in InFlight :
            /\ req[i].user_id = t
            /\ (i \notin DOMAIN req' \/ req'[i] # req[i])

\* The step is taken by a chat request of tenant t or for tenant t
ChatActor(t) ==
    /\ chat' # chat
    /\ t \in {chat'.caller, chat'.user_id}

\* C30  No step of an upload, delete or chat request for a tenant adds,
\* removes or changes a point of another tenant or changes a profile row
\* of another tenant, whether the request succeeds or fails.
C30_OtherTenantsUntouched ==
    [][\A a, b \in Tenants :
         (a # b /\ (Actor(a) \/ ChatActor(a)))
         => /\ PointsOf(b)' = PointsOf(b)
            /\ RowsOf(b)' = RowsOf(b)]_vars

\* An upload of a tenant has deactivated, deleted, stored and inserted, and
\* another tenant has its points and its active row
C30_Witness ==
    /\ last.kind = "upload"
    /\ last.status = "200"
    /\ \E b \in Tenants \ {last.user_id} :
         /\ PointsOf(b) # {}
         /\ ActiveRows(profiles, b) # {}

====
